---- MODULE Spec2Model ----
(***************************************************************************)
(* A model of the Live Share port forwarder (port_forwarder.go).           *)
(*                                                                         *)
(* Spec / FairSpec : one call of Forward or of ForwardToListener, with its *)
(*   accept loop, its connection handlers, the error channel errc and the  *)
(*   context, interleaved as goroutines.                                   *)
(* CloseSpec : the two deferred close steps of handleConnection as a pure  *)
(*   function of the recorded error and the two Close results.             *)
(***************************************************************************)
EXTENDS Integers, Sequences, FiniteSets, TLC

\* The number of connections the listener can hand out in one run.
MaxConns == 2

\* bytes the peers send in one run
MaxBytes == 2

\* make(chan error, 1)
ErrcCap == 1

Conns == 1..MaxConns

VARIABLES
    mode,            \* which entry point was called
    ctxDone,         \* ctx.Done() is closed
    cancelledAtCall, \* ctx was already cancelled when the entry point was called
    mainPc,          \* position of the entry point: "call", "await", "returned"
    result,          \* the error the entry point returned
    viaErrc,         \* awaitError returned from its errc case
    startErr,        \* what session.startSharing returned as error
    shareID,         \* the channelID shareRemotePort returned
    errc,            \* the buffered error channel
    offered,         \* history: every error passed to a send on errc, in order
    first,           \* history: which fired first, "error" (a send) or "cancel"
    acceptPc,        \* accept-loop goroutine: "none", "accept", "send", "done"
    nAccepted,       \* connections accepted so far
    hpc,             \* handler goroutine of each connection
    herr,            \* handleConnection's named result err
    chanOpened,      \* outcome of openStreamingChannel per connection
    connClosed,      \* number of Close calls on the local connection
    chanClosed,      \* number of Close calls on the remote channel
    nShare,          \* number of calls of session.startSharing
    startID,         \* the channelID startSharing returned
    openID,          \* the channelID passed to openStreamingChannel, per connection
    nOpen,           \* number of calls of openStreamingChannel, per connection
    copyPc,          \* the two io.Copy goroutines of each connection
    fnPc,            \* CloseSpec: position in the deferred calls
    fnErr0,          \* CloseSpec: err when the deferred calls start
    fnErr,           \* CloseSpec: err now
    fnChanClose,     \* CloseSpec: result of channel.Close()
    fnConnClose,     \* CloseSpec: result of conn.Close()
    fnOpened,        \* HandleSpec: outcome of openStreamingChannel
    fnCloses,        \* HandleSpec: the Close calls executed, in order
    incoming,        \* CopySpec: bytes a peer has sent, not yet read, per stream
    readFrom,        \* CopySpec: history of the bytes Read returned, per stream
    written,         \* CopySpec: history of the bytes written, per stream
    buf,             \* CopySpec: the buffer of each io.Copy
    nBytes           \* CopySpec: number of bytes the peers have sent

vars == <<mode, ctxDone, cancelledAtCall, mainPc, result, viaErrc, startErr,
          shareID, errc, offered, acceptPc, nAccepted, hpc, herr, chanOpened,
          connClosed, chanClosed, first,
          nShare, startID, openID, nOpen, copyPc,
          fnPc, fnErr0, fnErr, fnChanClose, fnConnClose, fnOpened, fnCloses,
          incoming, readFrom, written, buf, nBytes>>

progVars == <<mode, ctxDone, cancelledAtCall, mainPc, result, viaErrc, startErr,
          shareID, errc, offered, acceptPc, nAccepted, hpc, herr, chanOpened,
          connClosed, chanClosed, first,
          nShare, startID, openID, nOpen, copyPc,
          incoming, readFrom, written, buf, nBytes>>

\* what the announcement sets, what openStreamingChannel and the go
\* statements of handleConnection set
callVars == <<nShare, startID>>
openVars == <<openID, nOpen>>

\* the byte streams of the connections
cpVars == <<incoming, readFrom, written, buf, nBytes>>

fnVars == <<fnPc, fnErr0, fnErr, fnChanClose, fnConnClose, fnOpened,
           fnCloses>>

----------------------------------------------------------------------------
(* Error values.  kind is what == compares for the sentinels (io.EOF,      *)
(* context.Canceled); cause is the kind of the error a fmt.Errorf("%v")    *)
(* message was built from; origin and conn say who produced it.            *)

Err(kind, cause, origin, conn) ==
    [kind |-> kind, cause |-> cause, origin |-> origin, conn |-> conn]

Nil == Err("nil", "", "none", 0)

\* ctx.Err() after ctx.Done() is closed
CtxErr == Err("canceled", "", "ctx", 0)

\* io.EOF as returned by Close of the stream `origin` of connection c
EOF(origin, c) == Err("EOF", "", origin, c)

IsEOF(e) == e.kind = "EOF"

\* an error of session.startSharing
StartSharingErr == Err("startSharing failed", "", "session", 0)

\* an error of session.openStreamingChannel for connection c
OpenChannelErr(c) == Err("openStreamingChannel failed", "", "session", c)

\* an error of listen.Accept
AcceptErr == Err("accept failed", "", "listener", 0)

\* a Close error other than io.EOF
CloseErr(origin, c) == Err("close failed", "", origin, c)

\* fmt.Errorf(msg + ": %v", e): a new error value that carries e's text
Errorf(msg, e) == Err(msg, e.kind, e.origin, e.conn)

SharedID == "id"
ZeroID   == "zero"

----------------------------------------------------------------------------
(* Pure functions of the source.                                           *)

\* shareRemotePort returning the zero channelID in place of the session's
shareRemotePortZeroID(id, sErr) ==
    [id |-> ZeroID, err |-> Nil]

\* shareRemotePort: wraps the error of startSharing, then returns id, nil.
shareRemotePort(id, sErr) ==
    LET err == IF sErr # Nil
               THEN Errorf("failed to share remote port", sErr)
               ELSE sErr
    IN  [id |-> id, err |-> Nil]

\* safeClose storing the close result whatever was recorded
safeCloseOverwrites(err, closeErr) ==
    closeErr

\* safeClose: *err = closeErr only if *err == nil.
safeClose(err, closeErr) ==
    IF err = Nil THEN closeErr ELSE err

\* the channel closed through safeClose, as for the local connection
deferredChannelCloseAsSafeClose(err, closeErr) ==
    IF err = Nil THEN closeErr ELSE err

\* the deferred func of handleConnection: err = closeErr only if err == nil
\* and closeErr != io.EOF.
deferredChannelClose(err, closeErr) ==
    IF err = Nil /\ ~IsEOF(closeErr) THEN closeErr ELSE err

\* sendError replacing the value in an occupied slot
sendErrorOverwrites(ch, e) ==
    IF Len(ch) < ErrcCap THEN Append(ch, e) ELSE <<e>>

\* sendError: select { case errc <- err: default: }
sendError(ch, e) ==
    IF Len(ch) < ErrcCap THEN Append(ch, e) ELSE ch

\* a send that blocks in both entry points
sendReadyBlocking(m, ch) ==
    Len(ch) < ErrcCap

\* Whether the send of an error on errc can proceed: the select with a
\* default of sendError always can, the plain send of Forward needs room.
sendReady(m, ch) ==
    IF m = "ForwardToListener" THEN TRUE ELSE Len(ch) < ErrcCap

\* the channel after the send statement of entry point m
sendOn(m, ch, e) ==
    IF m = "ForwardToListener" THEN sendError(ch, e) ELSE Append(ch, e)

\* awaitError returning nil from its ctx.Done() case
awaitErrorResultNil(fromErrc, ch) ==
    IF fromErrc THEN Head(ch) ELSE Nil

\* awaitError: the value of the case the select took
awaitErrorResult(fromErrc, ch) ==
    IF fromErrc THEN Head(ch) ELSE CtxErr

\* awaitError selecting on errc alone
awaitReadyErrcOnly(fromErrc, ch, done) ==
    fromErrc /\ ch # <<>>

\* awaitError: whether the case of the select is ready
awaitReady(fromErrc, ch, done) ==
    IF fromErrc THEN ch # <<>> ELSE done

\* the return of line 113 with no deferred call pending
deferredAtOpenFailureNone == "send"

\* the deferred channel close registered before the error check
deferredAtOpenFailureBoth == "closeChan"

\* The deferred calls pending at the return of line 113: safeClose(conn).
deferredAtOpenFailure == "closeConn"

\* the return after the wait running safeClose(conn) alone
deferredAtReturnConnOnly == "closeConn"

\* The deferred calls pending at the return of line 132, last registered
\* first: the func closing the channel, then safeClose(conn).
deferredAtReturn == "closeChan"

\* the accept loop going on to the next Accept after an error
acceptLoopContinues == "accept"

\* The accept loop after sendError(err): return.
acceptLoopAfterError == "done"

\* a handler working on the connection variable of the accept loop, which
\* by now holds the n-th, latest accepted connection
handlerConnShared(c, n) ==
    IF n \in Conns THEN n ELSE c

\* The connection the handler goroutine of connection c works on: conn is
\* declared in the loop body, the closure has its own (n connections have
\* been accepted by now).
handlerConn(c, n) ==
    c

\* The directions of the bi-directional copy: "up" is io.Copy(channel, conn),
\* "down" is io.Copy(conn, channel).
Dirs == {"up", "down"}

\* no copy goroutine started
NoCopies == [d \in Dirs |-> "none"]

\* go io.Copy(conn, channel); go io.Copy(channel, conn): both goroutines
\* started, each about to Read from its source
StartedCopies == [d \in Dirs |-> "read"]

Streams == {"conn", "chan"}

\* the values of a byte
Bytes == {0, 1}

NoBytes == [c \in Conns |-> [s \in Streams |-> <<>>]]

\* the first n elements of q, and the rest
Take(q, n) == SubSeq(q, 1, n)
Drop(q, n) == SubSeq(q, n + 1, Len(q))

\* the stream an io.Copy goroutine reads: io.Copy(channel, conn) reads conn
copySrc(d) == IF d = "up" THEN "conn" ELSE "chan"

\* both copies writing to the stream they read
copyDstSameStream(d) == IF d = "up" THEN "conn" ELSE "chan"

\* the stream an io.Copy goroutine writes
copyDst(d) == IF d = "up" THEN "chan" ELSE "conn"

\* a handler that also stops waiting when both copies have ended
waitOverOrCopiesDone(done, copies) ==
    done \/ \A d \in Dirs : copies[d] = "done"

\* <-ctx.Done(): what ends the handler's wait
waitOver(done, copies) ==
    done

----------------------------------------------------------------------------
(* The program.                                                            *)

Init ==
    /\ mode \in {"Forward", "ForwardToListener"}
    /\ ctxDone \in BOOLEAN
    /\ cancelledAtCall = ctxDone
    /\ mainPc = "call"
    /\ result = Nil
    /\ viaErrc = FALSE
    /\ startErr = Nil
    /\ shareID = ZeroID
    /\ errc = <<>>
    /\ offered = <<>>
    /\ acceptPc = "none"
    /\ nAccepted = 0
    /\ hpc = [c \in Conns |-> "none"]
    /\ herr = [c \in Conns |-> Nil]
    /\ chanOpened = [c \in Conns |-> "none"]
    /\ first = IF ctxDone THEN "cancel" ELSE "none"
    /\ connClosed = [c \in Conns |-> 0]
    /\ chanClosed = [c \in Conns |-> 0]
    /\ nShare = 0
    /\ startID = ZeroID
    /\ openID = [c \in Conns |-> "none"]
    /\ nOpen = [c \in Conns |-> 0]
    /\ copyPc = [c \in Conns |-> NoCopies]
    /\ incoming = NoBytes
    /\ readFrom = NoBytes
    /\ written = NoBytes
    /\ buf = [c \in Conns |-> [d \in Dirs |-> <<>>]]
    /\ nBytes = 0
    /\ fnPc = "off"
    /\ fnOpened = "none"
    /\ fnCloses = <<>>
    /\ fnErr0 = Nil
    /\ fnErr = Nil
    /\ fnChanClose = Nil
    /\ fnConnClose = Nil

\* the caller's cancel()
Cancel ==
    /\ ~ctxDone
    /\ ctxDone' = TRUE
    /\ first' = IF first = "none" THEN "cancel" ELSE first
    /\ UNCHANGED <<mode, cancelledAtCall, mainPc, result, viaErrc, startErr,
                   shareID, errc, offered, acceptPc, nAccepted, hpc, herr,
                   chanOpened, connClosed, chanClosed>>
    /\ UNCHANGED <<callVars, openVars, copyPc>>
    /\ UNCHANGED <<fnVars, cpVars>>

\* Forward up to its call of awaitError: shareRemotePort, the early return
\* that closes conn, make(chan error, 1) and the go statement.
Forward ==
    /\ mode = "Forward"
    /\ mainPc = "call"
    /\ \E sErr \in {Nil, StartSharingErr} :
         LET r == shareRemotePort(IF sErr = Nil THEN SharedID ELSE ZeroID, sErr)
         IN  /\ startErr' = sErr
             /\ nShare' = nShare + 1
             /\ startID' = (IF sErr = Nil THEN SharedID ELSE ZeroID)
             /\ shareID' = r.id
             /\ IF r.err # Nil
                THEN /\ connClosed' = [connClosed EXCEPT ![1] = @ + 1]
                     /\ result' = r.err
                     /\ mainPc' = "returned"
                     /\ UNCHANGED hpc
                ELSE /\ hpc' = [hpc EXCEPT ![1] = "open"]
                     /\ mainPc' = "await"
                     /\ UNCHANGED <<connClosed, result>>
    /\ UNCHANGED <<mode, ctxDone, cancelledAtCall, viaErrc, errc, offered,
                   first, acceptPc, nAccepted, herr, chanOpened, chanClosed>>
    /\ UNCHANGED <<openVars, copyPc>>
    /\ UNCHANGED <<fnVars, cpVars>>

\* ForwardToListener up to its call of awaitError: shareRemotePort, the
\* early return, make(chan error, 1) and the go statement of the accept loop.
ForwardToListener ==
    /\ mode = "ForwardToListener"
    /\ mainPc = "call"
    /\ \E sErr \in {Nil, StartSharingErr} :
         LET r == shareRemotePort(IF sErr = Nil THEN SharedID ELSE ZeroID, sErr)
         IN  /\ startErr' = sErr
             /\ nShare' = nShare + 1
             /\ startID' = (IF sErr = Nil THEN SharedID ELSE ZeroID)
             /\ shareID' = r.id
             /\ IF r.err # Nil
                THEN /\ result' = r.err
                     /\ mainPc' = "returned"
                     /\ UNCHANGED acceptPc
                ELSE /\ acceptPc' = "accept"
                     /\ mainPc' = "await"
                     /\ UNCHANGED result
    /\ UNCHANGED <<mode, ctxDone, cancelledAtCall, viaErrc, errc, offered,
                   first, nAccepted, hpc, herr, chanOpened, connClosed,
                   chanClosed>>
    /\ UNCHANGED <<openVars, copyPc>>
    /\ UNCHANGED <<fnVars, cpVars>>

\* awaitError: the select takes a case that is ready, any one of them when
\* both are.
awaitError ==
    /\ mainPc = "await"
    /\ \E fromErrc \in BOOLEAN :
         /\ awaitReady(fromErrc, errc, ctxDone)
         /\ result' = awaitErrorResult(fromErrc, errc)
         /\ errc' = IF fromErrc THEN Tail(errc) ELSE errc
         /\ viaErrc' = fromErrc
    /\ mainPc' = "returned"
    /\ UNCHANGED <<mode, ctxDone, cancelledAtCall, startErr, shareID, offered,
                   first, acceptPc, nAccepted, hpc, herr, chanOpened,
                   connClosed, chanClosed>>
    /\ UNCHANGED <<callVars, openVars, copyPc>>
    /\ UNCHANGED <<fnVars, cpVars>>

\* listen.Accept returns a connection; the loop starts its handler goroutine.
AcceptConn ==
    /\ acceptPc = "accept"
    /\ nAccepted < MaxConns
    /\ nAccepted' = nAccepted + 1
    /\ hpc' = [hpc EXCEPT ![nAccepted + 1] = "open"]
    /\ UNCHANGED <<mode, ctxDone, cancelledAtCall, mainPc, result, viaErrc,
                   startErr, shareID, errc, offered, first, acceptPc, herr,
                   chanOpened, connClosed, chanClosed>>
    /\ UNCHANGED <<callVars, openVars, copyPc>>
    /\ UNCHANGED <<fnVars, cpVars>>

\* listen.Accept returns an error (the caller closed the listener).
AcceptFail ==
    /\ acceptPc = "accept"
    /\ acceptPc' = "send"
    /\ UNCHANGED <<mode, ctxDone, cancelledAtCall, mainPc, result, viaErrc,
                   startErr, shareID, errc, offered, first, nAccepted, hpc,
                   herr, chanOpened, connClosed, chanClosed>>
    /\ UNCHANGED <<callVars, openVars, copyPc>>
    /\ UNCHANGED <<fnVars, cpVars>>

\* the accept loop's sendError(err); return
AcceptSendError ==
    /\ acceptPc = "send"
    /\ sendReady(mode, errc)
    /\ errc' = sendOn(mode, errc, AcceptErr)
    /\ offered' = Append(offered, AcceptErr)
    /\ first' = IF first = "none" THEN "error" ELSE first
    /\ acceptPc' = acceptLoopAfterError
    /\ UNCHANGED <<mode, ctxDone, cancelledAtCall, mainPc, result, viaErrc,
                   startErr, shareID, nAccepted, hpc, herr, chanOpened,
                   connClosed, chanClosed>>
    /\ UNCHANGED <<callVars, openVars, copyPc>>
    /\ UNCHANGED <<fnVars, cpVars>>

\* handleConnection: openStreamingChannel and what follows it up to the wait
\* (the two go io.Copy) or up to the return of the wrapped error.
OpenChannel(c) ==
    /\ hpc[c] = "open"
    /\ \E ok \in BOOLEAN :
         IF ok
         THEN /\ chanOpened' = [chanOpened EXCEPT ![c] = "ok"]
              /\ copyPc' = [copyPc EXCEPT ![c] = StartedCopies]
              /\ hpc' = [hpc EXCEPT ![c] = "wait"]
              /\ UNCHANGED herr
         ELSE /\ chanOpened' = [chanOpened EXCEPT ![c] = "failed"]
              /\ UNCHANGED copyPc
              /\ herr' = [herr EXCEPT ![c] =
                    Errorf("error opening streaming channel for new connection",
                           OpenChannelErr(c))]
              /\ hpc' = [hpc EXCEPT ![c] = deferredAtOpenFailure]
    /\ openID' = [openID EXCEPT ![c] = shareID]
    /\ nOpen' = [nOpen EXCEPT ![c] = @ + 1]
    /\ UNCHANGED <<mode, ctxDone, cancelledAtCall, mainPc, result, viaErrc,
                   startErr, shareID, errc, offered, first, acceptPc,
                   nAccepted, connClosed, chanClosed>>
    /\ UNCHANGED <<callVars>>
    /\ UNCHANGED <<fnVars, cpVars>>

\* handleConnection: <-ctx.Done(); return ctx.Err()
WaitDone(c) ==
    /\ hpc[c] = "wait"
    /\ waitOver(ctxDone, copyPc[c])
    /\ herr' = [herr EXCEPT ![c] = CtxErr]
    /\ hpc' = [hpc EXCEPT ![c] = deferredAtReturn]
    /\ UNCHANGED <<mode, ctxDone, cancelledAtCall, mainPc, result, viaErrc,
                   startErr, shareID, errc, offered, first, acceptPc,
                   nAccepted, chanOpened, connClosed, chanClosed>>
    /\ UNCHANGED <<callVars, openVars, copyPc>>
    /\ UNCHANGED <<fnVars, cpVars>>

\* handleConnection: the deferred func that closes the channel
CloseChannel(c) ==
    /\ hpc[c] = "closeChan"
    /\ \E closeErr \in {Nil, EOF("chan", c), CloseErr("chan", c)} :
         herr' = [herr EXCEPT ![c] = deferredChannelClose(@, closeErr)]
    /\ chanClosed' = [chanClosed EXCEPT ![c] = @ + 1]
    /\ hpc' = [hpc EXCEPT ![c] = "closeConn"]
    /\ UNCHANGED <<mode, ctxDone, cancelledAtCall, mainPc, result, viaErrc,
                   startErr, shareID, errc, offered, first, acceptPc,
                   nAccepted, chanOpened, connClosed>>
    /\ UNCHANGED <<callVars, openVars, copyPc>>
    /\ UNCHANGED <<fnVars, cpVars>>

\* handleConnection: the deferred safeClose(conn, &err), and the caller's
\* test of the returned error.
CloseConn(c) ==
    /\ hpc[c] = "closeConn"
    /\ \E closeErr \in {Nil, EOF("conn", c), CloseErr("conn", c)} :
         LET e == safeClose(herr[c], closeErr)
         IN  /\ herr' = [herr EXCEPT ![c] = e]
             /\ hpc' = [hpc EXCEPT ![c] = IF e # Nil THEN "send" ELSE "done"]
    /\ connClosed' = [connClosed EXCEPT ![handlerConn(c, nAccepted)] = @ + 1]
    /\ UNCHANGED <<mode, ctxDone, cancelledAtCall, mainPc, result, viaErrc,
                   startErr, shareID, errc, offered, first, acceptPc,
                   nAccepted, chanOpened, chanClosed>>
    /\ UNCHANGED <<callVars, openVars, copyPc>>
    /\ UNCHANGED <<fnVars, cpVars>>

\* the handler goroutine's sendError(err) (ForwardToListener) or
\* errc <- err (Forward)
SendErr(c) ==
    /\ hpc[c] = "send"
    /\ sendReady(mode, errc)
    /\ errc' = sendOn(mode, errc, herr[c])
    /\ offered' = Append(offered, herr[c])
    /\ first' = IF first = "none" THEN "error" ELSE first
    /\ hpc' = [hpc EXCEPT ![c] = "done"]
    /\ UNCHANGED <<mode, ctxDone, cancelledAtCall, mainPc, result, viaErrc,
                   startErr, shareID, acceptPc, nAccepted, herr, chanOpened,
                   connClosed, chanClosed>>
    /\ UNCHANGED <<callVars, openVars, copyPc>>
    /\ UNCHANGED <<fnVars, cpVars>>

Handler(c) ==
    \/ OpenChannel(c)
    \/ WaitDone(c)
    \/ CloseChannel(c)
    \/ CloseConn(c)
    \/ SendErr(c)

Next ==
    \/ Cancel
    \/ Forward
    \/ ForwardToListener
    \/ awaitError
    \/ AcceptConn
    \/ AcceptFail
    \/ AcceptSendError
    \/ \E c \in Conns : OpenChannel(c)
    \/ \E c \in Conns : WaitDone(c)
    \/ \E c \in Conns : CloseChannel(c)
    \/ \E c \in Conns : CloseConn(c)
    \/ \E c \in Conns : SendErr(c)

Spec == Init /\ [][Next]_vars

\* Every goroutine that can run does run: the entry point and each handler.
\* The caller's cancel and the listener's Accept are left to the environment.
FairSpec ==
    /\ Spec
    /\ WF_vars(Forward)
    /\ WF_vars(ForwardToListener)
    /\ WF_vars(awaitError)
    /\ WF_vars(AcceptSendError)
    /\ \A c \in Conns : WF_vars(Handler(c))

----------------------------------------------------------------------------
(* The deferred calls of handleConnection as a function of the error       *)
(* recorded at the return and of the two Close results.                    *)

CloseInit ==
    /\ mode = "Forward"
    /\ ctxDone = FALSE
    /\ cancelledAtCall = FALSE
    /\ mainPc = "call"
    /\ result = Nil
    /\ viaErrc = FALSE
    /\ startErr = Nil
    /\ shareID = ZeroID
    /\ errc = <<>>
    /\ offered = <<>>
    /\ first = "none"
    /\ acceptPc = "none"
    /\ nAccepted = 0
    /\ hpc = [c \in Conns |-> "none"]
    /\ herr = [c \in Conns |-> Nil]
    /\ chanOpened = [c \in Conns |-> "none"]
    /\ connClosed = [c \in Conns |-> 0]
    /\ chanClosed = [c \in Conns |-> 0]
    /\ nShare = 0
    /\ startID = ZeroID
    /\ openID = [c \in Conns |-> "none"]
    /\ nOpen = [c \in Conns |-> 0]
    /\ copyPc = [c \in Conns |-> NoCopies]
    /\ incoming = NoBytes
    /\ readFrom = NoBytes
    /\ written = NoBytes
    /\ buf = [c \in Conns |-> [d \in Dirs |-> <<>>]]
    /\ nBytes = 0
    /\ \E c \in Conns :
         /\ fnErr0 \in {Nil, CtxErr,
                Errorf("error opening streaming channel for new connection",
                       OpenChannelErr(c))}
         /\ fnChanClose \in {Nil, EOF("chan", c), CloseErr("chan", c)}
         /\ fnConnClose \in {Nil, EOF("conn", c), CloseErr("conn", c)}
    /\ fnErr = fnErr0
    /\ fnPc = "closeChan"
    /\ fnOpened = "ok"
    /\ fnCloses = <<>>

\* the deferred func closing the channel
FnCloseChannel ==
    /\ fnPc = "closeChan"
    /\ fnErr' = deferredChannelClose(fnErr, fnChanClose)
    /\ fnPc' = "closeConn"
    /\ fnCloses' = Append(fnCloses, "chan")
    /\ UNCHANGED <<fnErr0, fnChanClose, fnConnClose, fnOpened>>
    /\ UNCHANGED progVars

\* the deferred safeClose(conn, &err)
FnCloseConn ==
    /\ fnPc = "closeConn"
    /\ fnErr' = safeClose(fnErr, fnConnClose)
    /\ fnPc' = "done"
    /\ fnCloses' = Append(fnCloses, "conn")
    /\ UNCHANGED <<fnErr0, fnChanClose, fnConnClose, fnOpened>>
    /\ UNCHANGED progVars

CloseNext ==
    \/ FnCloseChannel
    \/ FnCloseConn

CloseSpec == CloseInit /\ [][CloseNext]_vars

----------------------------------------------------------------------------
(* One call of handleConnection from its entry to its return, with the     *)
(* results its two Close calls give.                                       *)

HandleInit ==
    /\ mode = "Forward"
    /\ ctxDone \in BOOLEAN
    /\ cancelledAtCall = ctxDone
    /\ mainPc = "call"
    /\ result = Nil
    /\ viaErrc = FALSE
    /\ startErr = Nil
    /\ shareID = ZeroID
    /\ errc = <<>>
    /\ offered = <<>>
    /\ first = IF ctxDone THEN "cancel" ELSE "none"
    /\ acceptPc = "none"
    /\ nAccepted = 0
    /\ hpc = [c \in Conns |-> "none"]
    /\ herr = [c \in Conns |-> Nil]
    /\ chanOpened = [c \in Conns |-> "none"]
    /\ connClosed = [c \in Conns |-> 0]
    /\ chanClosed = [c \in Conns |-> 0]
    /\ nShare = 0
    /\ startID = ZeroID
    /\ openID = [c \in Conns |-> "none"]
    /\ nOpen = [c \in Conns |-> 0]
    /\ copyPc = [c \in Conns |-> NoCopies]
    /\ incoming = NoBytes
    /\ readFrom = NoBytes
    /\ written = NoBytes
    /\ buf = [c \in Conns |-> [d \in Dirs |-> <<>>]]
    /\ nBytes = 0
    /\ \E c \in Conns :
         /\ fnChanClose \in {Nil, EOF("chan", c), CloseErr("chan", c)}
         /\ fnConnClose \in {Nil, EOF("conn", c), CloseErr("conn", c)}
    /\ fnErr0 = Nil
    /\ fnErr = Nil
    /\ fnPc = "open"
    /\ fnOpened = "none"
    /\ fnCloses = <<>>

\* openStreamingChannel and, when it fails, the return of the wrapped error
FnOpenChannel ==
    /\ fnPc = "open"
    /\ \E ok \in BOOLEAN, c \in Conns :
         IF ok
         THEN /\ fnOpened' = "ok"
              /\ fnPc' = "wait"
              /\ UNCHANGED <<fnErr0, fnErr>>
         ELSE LET e == Errorf("error opening streaming channel for new connection",
                              OpenChannelErr(c))
              IN  /\ fnOpened' = "failed"
                  /\ fnErr0' = e
                  /\ fnErr' = e
                  /\ fnPc' = deferredAtOpenFailure
    /\ UNCHANGED <<fnChanClose, fnConnClose, fnCloses>>
    /\ UNCHANGED progVars

\* <-ctx.Done(); return ctx.Err()
FnWaitDone ==
    /\ fnPc = "wait"
    /\ waitOver(ctxDone, StartedCopies)
    /\ fnErr0' = CtxErr
    /\ fnErr' = CtxErr
    /\ fnPc' = deferredAtReturn
    /\ UNCHANGED <<fnChanClose, fnConnClose, fnOpened, fnCloses>>
    /\ UNCHANGED progVars

HandleNext ==
    \/ Cancel
    \/ FnOpenChannel
    \/ FnWaitDone
    \/ FnCloseChannel
    \/ FnCloseConn

HandleSpec == HandleInit /\ [][HandleNext]_vars

----------------------------------------------------------------------------
(* The connection handlers with their copy goroutines: handleConnection    *)
(* from its call to its return, for the connections handed out so far.     *)

\* stream s of connection c has been closed by its handler
StreamClosed(s, c) ==
    IF s = "conn" THEN connClosed[c] > 0 ELSE chanClosed[c] > 0

byteFrame ==
    UNCHANGED <<mode, ctxDone, cancelledAtCall, mainPc, result, viaErrc,
                startErr, shareID, errc, offered, first, acceptPc, nAccepted,
                hpc, herr, chanOpened, connClosed, chanClosed, callVars,
                openVars, fnVars>>

copyFrame ==
    /\ byteFrame
    /\ UNCHANGED cpVars

\* io.Copy: Read on the open source returns data, or the peer's EOF or error
CopyRead(c, d) ==
    /\ copyPc[c][d] = "read"
    /\ ~StreamClosed(copySrc(d), c)
    /\ \E data \in BOOLEAN :
         copyPc' = [copyPc EXCEPT ![c][d] = IF data THEN "write" ELSE "done"]
    /\ copyFrame

\* io.Copy: Read on a source the handler has closed fails
CopyReadClosed(c, d) ==
    /\ copyPc[c][d] = "read"
    /\ StreamClosed(copySrc(d), c)
    /\ copyPc' = [copyPc EXCEPT ![c][d] = "done"]
    /\ copyFrame

\* io.Copy: Write on the open destination succeeds, or fails at the peer
CopyWrite(c, d) ==
    /\ copyPc[c][d] = "write"
    /\ ~StreamClosed(copyDst(d), c)
    /\ \E ok \in BOOLEAN :
         copyPc' = [copyPc EXCEPT ![c][d] = IF ok THEN "read" ELSE "done"]
    /\ copyFrame

\* io.Copy: Write on a destination the handler has closed fails
CopyWriteClosed(c, d) ==
    /\ copyPc[c][d] = "write"
    /\ StreamClosed(copyDst(d), c)
    /\ copyPc' = [copyPc EXCEPT ![c][d] = "done"]
    /\ copyFrame

\* The entry point has announced the port and waits in awaitError; Forward
\* has started the handler of its connection, the accept loop of
\* ForwardToListener the handlers of the connections accepted so far.
ConnInit ==
    /\ mode \in {"Forward", "ForwardToListener"}
    /\ ctxDone \in BOOLEAN
    /\ cancelledAtCall = ctxDone
    /\ mainPc = "await"
    /\ result = Nil
    /\ viaErrc = FALSE
    /\ startErr = Nil
    /\ shareID = SharedID
    /\ errc = <<>>
    /\ offered = <<>>
    /\ first = IF ctxDone THEN "cancel" ELSE "none"
    /\ acceptPc = IF mode = "Forward" THEN "none" ELSE "accept"
    /\ nAccepted \in (IF mode = "Forward" THEN {0} ELSE Conns)
    /\ hpc = [c \in Conns |->
                IF (mode = "Forward" /\ c = 1) \/ c <= nAccepted
                THEN "open" ELSE "none"]
    /\ herr = [c \in Conns |-> Nil]
    /\ chanOpened = [c \in Conns |-> "none"]
    /\ connClosed = [c \in Conns |-> 0]
    /\ chanClosed = [c \in Conns |-> 0]
    /\ nShare = 1
    /\ startID = SharedID
    /\ openID = [c \in Conns |-> "none"]
    /\ nOpen = [c \in Conns |-> 0]
    /\ copyPc = [c \in Conns |-> NoCopies]
    /\ incoming = NoBytes
    /\ readFrom = NoBytes
    /\ written = NoBytes
    /\ buf = [c \in Conns |-> [d \in Dirs |-> <<>>]]
    /\ nBytes = 0
    /\ fnPc = "off"
    /\ fnOpened = "none"
    /\ fnCloses = <<>>
    /\ fnErr0 = Nil
    /\ fnErr = Nil
    /\ fnChanClose = Nil
    /\ fnConnClose = Nil

\* handleConnection of connection c, from its call to its return
HandleConnection(c) ==
    \/ OpenChannel(c)
    \/ WaitDone(c)
    \/ CloseChannel(c)
    \/ CloseConn(c)

ConnNext ==
    \/ Cancel
    \/ \E c \in Conns : OpenChannel(c)
    \/ \E c \in Conns : WaitDone(c)
    \/ \E c \in Conns : CloseChannel(c)
    \/ \E c \in Conns : CloseConn(c)
    \/ \E c \in Conns, d \in Dirs : CopyRead(c, d)
    \/ \E c \in Conns, d \in Dirs : CopyReadClosed(c, d)
    \/ \E c \in Conns, d \in Dirs : CopyWrite(c, d)
    \/ \E c \in Conns, d \in Dirs : CopyWriteClosed(c, d)

ConnSpec == ConnInit /\ [][ConnNext]_vars

\* Each handler runs when it can; a Read or Write on a stream the handler
\* has closed returns.  Whether data, EOF or a peer's error arrives on an
\* open stream is left to the peers.
FairConnSpec ==
    /\ ConnSpec
    /\ \A c \in Conns : WF_vars(HandleConnection(c))
    /\ \A c \in Conns, d \in Dirs :
         WF_vars(CopyReadClosed(c, d) \/ CopyWriteClosed(c, d))

----------------------------------------------------------------------------
(* The copy goroutines with the bytes they move, while the handlers wait   *)
(* for the cancellation.                                                   *)

\* Every connection has been accepted and its channel opened; the handlers
\* wait, the copies are in their first Read.
CopyInit ==
    /\ mode = "ForwardToListener"
    /\ ctxDone = FALSE
    /\ cancelledAtCall = FALSE
    /\ mainPc = "await"
    /\ result = Nil
    /\ viaErrc = FALSE
    /\ startErr = Nil
    /\ shareID = SharedID
    /\ errc = <<>>
    /\ offered = <<>>
    /\ first = "none"
    /\ acceptPc = "accept"
    /\ nAccepted = MaxConns
    /\ hpc = [c \in Conns |-> "wait"]
    /\ herr = [c \in Conns |-> Nil]
    /\ chanOpened = [c \in Conns |-> "ok"]
    /\ connClosed = [c \in Conns |-> 0]
    /\ chanClosed = [c \in Conns |-> 0]
    /\ nShare = 1
    /\ startID = SharedID
    /\ openID = [c \in Conns |-> SharedID]
    /\ nOpen = [c \in Conns |-> 1]
    /\ copyPc = [c \in Conns |-> StartedCopies]
    /\ incoming = NoBytes
    /\ readFrom = NoBytes
    /\ written = NoBytes
    /\ buf = [c \in Conns |-> [d \in Dirs |-> <<>>]]
    /\ nBytes = 0
    /\ fnPc = "off"
    /\ fnOpened = "none"
    /\ fnCloses = <<>>
    /\ fnErr0 = Nil
    /\ fnErr = Nil
    /\ fnChanClose = Nil
    /\ fnConnClose = Nil

\* a peer sends byte b on stream s of connection c
Arrive(c, s, b) ==
    /\ nBytes < MaxBytes
    /\ nBytes' = nBytes + 1
    /\ incoming' = [incoming EXCEPT ![c][s] = Append(@, b)]
    /\ UNCHANGED <<readFrom, written, buf, copyPc>>
    /\ byteFrame

\* io.Copy: src.Read returns the next n bytes, or the peer's EOF or error
CopyReadBytes(c, d) ==
    /\ copyPc[c][d] = "read"
    /\ ~StreamClosed(copySrc(d), c)
    /\ \/ \E n \in 1..Len(incoming[c][copySrc(d)]) :
            /\ buf' = [buf EXCEPT ![c][d] = Take(incoming[c][copySrc(d)], n)]
            /\ readFrom' = [readFrom EXCEPT ![c][copySrc(d)] =
                              @ \o Take(incoming[c][copySrc(d)], n)]
            /\ incoming' = [incoming EXCEPT ![c][copySrc(d)] = Drop(@, n)]
            /\ copyPc' = [copyPc EXCEPT ![c][d] = "write"]
       \/ /\ copyPc' = [copyPc EXCEPT ![c][d] = "done"]
          /\ UNCHANGED <<buf, readFrom, incoming>>
    /\ UNCHANGED <<written, nBytes>>
    /\ byteFrame

\* io.Copy: dst.Write(buf[0:nr]) writes all of it, or fewer bytes and fails
CopyWriteBytes(c, d) ==
    /\ copyPc[c][d] = "write"
    /\ ~StreamClosed(copyDst(d), c)
    /\ \E n \in 0..Len(buf[c][d]) :
         /\ written' = [written EXCEPT ![c][copyDst(d)] =
                          @ \o Take(buf[c][d], n)]
         /\ copyPc' = [copyPc EXCEPT ![c][d] =
                         IF n = Len(buf[c][d]) THEN "read" ELSE "done"]
    /\ buf' = [buf EXCEPT ![c][d] = <<>>]
    /\ UNCHANGED <<incoming, readFrom, nBytes>>
    /\ byteFrame

CopyNext ==
    \/ \E c \in Conns, s \in Streams, b \in Bytes : Arrive(c, s, b)
    \/ \E c \in Conns, d \in Dirs : CopyReadBytes(c, d)
    \/ \E c \in Conns, d \in Dirs : CopyWriteBytes(c, d)

CopySpec == CopyInit /\ [][CopyNext]_vars

----------------------------------------------------------------------------
(* Properties.                                                             *)

Returned == mainPc = "returned"

\* handleConnection of connection c has returned
Finished(c) == hpc[c] \in {"send", "done"}

OfferedSet == {offered[i] : i \in 1..Len(offered)}

\* C1: when startSharing fails, Forward closes the supplied connection,
\* returns a non-nil error wrapping the failure, and the handler never runs,
\* so openStreamingChannel is never called.
C1_ForwardAnnounceFailure ==
    (mode = "Forward" /\ startErr # Nil) =>
        /\ Returned
        /\ result # Nil
        /\ result.cause = startErr.kind
        /\ connClosed[1] = 1
        /\ hpc[1] = "none"
        /\ chanOpened[1] = "none"

\* C2: when startSharing fails, shareRemotePort returns a non-nil error
\* wrapping the cause, and ForwardToListener returns it without calling
\* Accept or starting a handler.
C2_ListenerAnnounceFailure ==
    (mode = "ForwardToListener" /\ startErr # Nil) =>
        /\ shareRemotePort(shareID, startErr).err # Nil
        /\ shareRemotePort(shareID, startErr).err.cause = startErr.kind
        /\ Returned
        /\ result = shareRemotePort(shareID, startErr).err
        /\ acceptPc = "none"
        /\ nAccepted = 0
        /\ \A c \in Conns : hpc[c] = "none"

\* C3: the local connection is closed at most once at any time and exactly
\* once when its handler has finished; the remote channel is closed exactly
\* once by then if openStreamingChannel succeeded and never if it failed.
C3_ExactlyOnceClose ==
    \A c \in Conns :
        /\ connClosed[c] <= 1
        /\ chanClosed[c] <= 1
        /\ Finished(c) => connClosed[c] = 1
        /\ (Finished(c) /\ chanOpened[c] = "ok") => chanClosed[c] = 1
        /\ chanOpened[c] # "ok" => chanClosed[c] = 0

\* C3 witness: one handler finished after a failed open, another after an
\* opened channel and a cancellation, each stream closed once.
C3_Witness ==
    \E c, d \in Conns :
        /\ Finished(c) /\ chanOpened[c] = "failed"
        /\ connClosed[c] = 1 /\ chanClosed[c] = 0
        /\ Finished(d) /\ chanOpened[d] = "ok"
        /\ connClosed[d] = 1 /\ chanClosed[d] = 1

\* C4: whenever Forward has returned, the supplied stream has been closed.
C4_ForwardReturnsClosed ==
    (mode = "Forward" /\ Returned) => connClosed[1] >= 1

\* C5 as stated: with the context cancelled at the call, a call that has
\* returned returned the context's cancellation error (here even with the
\* announcement succeeding).
C5_Original ==
    (cancelledAtCall /\ startErr = Nil /\ Returned) => result = CtxErr

\* C5 amended: with the context cancelled at the call, the call returns, its
\* result is the cancellation error or an error a handler or the accept loop
\* sent on errc (a channel-open error, an accept error), never nil, and
\* every supplied or accepted stream and every opened channel is closed.
C5_CancelledAtCall ==
    /\ [](cancelledAtCall /\ Returned =>
            /\ result # Nil
            /\ \/ ~viaErrc /\ result = CtxErr
               \/ viaErrc /\ result \in OfferedSet)
    /\ [](cancelledAtCall => <>Returned)
    /\ [](cancelledAtCall /\ mode = "Forward" =>
            <>(Finished(1) /\ connClosed[1] = 1))
    /\ \A c \in Conns :
         [](cancelledAtCall /\ hpc[c] # "none" =>
              <>(/\ Finished(c)
                 /\ connClosed[c] = 1
                 /\ chanOpened[c] = "ok" => chanClosed[c] = 1))

\* C5 witness: the context was cancelled at the call, the call returned a
\* channel-open error, and the stream is closed.
C5_Witness ==
    /\ cancelledAtCall /\ Returned
    /\ viaErrc
    /\ result.kind = "error opening streaming channel for new connection"
    /\ connClosed[result.conn] = 1

\* C6: ForwardToListener returns once, and what it returns is the error of
\* one handler, the accept error, or the cancellation error of a cancelled
\* context; never nil, never a value no source produced.
C6_Inv ==
    (mode = "ForwardToListener" /\ Returned) =>
        /\ result # Nil
        /\ \/ result = CtxErr /\ ctxDone
           \/ result = AcceptErr /\ acceptPc = "done"
           \/ \E c \in Conns : hpc[c] = "done" /\ result = herr[c]

C6_SingleResult ==
    /\ []C6_Inv
    /\ [][Returned => Returned' /\ result' = result]_vars

\* C6 witness: two handlers failed with different errors, both sent, and
\* ForwardToListener returned one of them.
C6_Witness ==
    /\ mode = "ForwardToListener" /\ Returned
    /\ \E c, d \in Conns :
         /\ c # d
         /\ hpc[c] = "done" /\ hpc[d] = "done"
         /\ chanOpened[c] = "failed" /\ chanOpened[d] = "failed"
         /\ herr[c] # herr[d]
         /\ result = herr[c]

\* C7 as stated: an error sent before the cancellation is what
\* ForwardToListener returns, a cancellation before any send makes it return
\* the cancellation error, and only the first error sent can be returned.
C7_Original ==
    (mode = "ForwardToListener" /\ Returned) =>
        /\ first = "error" => result = offered[1]
        /\ first = "cancel" => result = CtxErr
        /\ viaErrc => result = offered[1]

\* C7 amended: awaitError returns the first error sent when the context is
\* not cancelled at the time it selects, the cancellation error when nothing
\* has been sent by then, and either of the two when both have happened,
\* whichever came first; of the errors sent only the first is ever returned.
C7_Inv ==
    (mode = "ForwardToListener" /\ Returned) =>
        /\ viaErrc => offered # <<>> /\ result = offered[1]
        /\ ~viaErrc => ctxDone /\ result = CtxErr

C7_FirstWins ==
    /\ []C7_Inv
    /\ [][(mode = "ForwardToListener" /\ mainPc = "await" /\ Returned') =>
            /\ ~ctxDone => offered # <<>> /\ result' = offered[1]
            /\ offered = <<>> => result' = CtxErr]_vars

\* C7 witness: the context was cancelled before anything was sent, two
\* different errors were sent, and the first of them was returned.
C7_Witness ==
    /\ mode = "ForwardToListener" /\ Returned
    /\ first = "cancel"
    /\ viaErrc
    /\ Len(offered) >= 2
    /\ offered[1] # offered[2]
    /\ result = offered[1]
    /\ result # CtxErr

\* C8: a goroutine about to send its error can always send; in
\* ForwardToListener a send to an occupied slot leaves the slot as it is, in
\* Forward the handler's send finds the buffer free.
C8_Inv ==
    /\ \A c \in Conns : hpc[c] = "send" => sendReady(mode, errc)
    /\ acceptPc = "send" => sendReady(mode, errc)
    /\ (mode = "Forward" /\ hpc[1] = "send") => Len(errc) < ErrcCap
    /\ Len(errc) <= ErrcCap

C8_NeverBlocks ==
    /\ []C8_Inv
    /\ [][(mode = "ForwardToListener" /\ Len(offered') > Len(offered)
           /\ Len(errc) = ErrcCap) => errc' = errc]_vars

\* C8 witness: ForwardToListener has returned, and after that every handler
\* and the accept loop still got through their sends.
C8_Witness ==
    /\ mode = "ForwardToListener" /\ Returned
    /\ Len(offered) = MaxConns + 1
    /\ acceptPc = "done"
    /\ \A c \in Conns : hpc[c] = "done"
    /\ Len(errc) = ErrcCap

\* C9: with the announcement succeeding, every accepted connection's channel
\* opened and Accept not failing, ForwardToListener returns the cancellation
\* error once the context is cancelled, and every accepted connection and
\* every opened channel is closed by its handler, also after the return.
C9_WindDown ==
    /\ [](( /\ mode = "ForwardToListener" /\ Returned
            /\ startErr = Nil
            /\ acceptPc = "accept"
            /\ \A c \in Conns : chanOpened[c] # "failed") =>
               result = CtxErr /\ ctxDone)
    /\ [](mode = "ForwardToListener" /\ ctxDone /\ mainPc = "await" =>
            <>Returned)
    /\ \A c \in Conns :
         [](mode = "ForwardToListener" /\ ctxDone /\ hpc[c] # "none" =>
              <>(/\ Finished(c)
                 /\ connClosed[c] = 1
                 /\ chanOpened[c] = "ok" => chanClosed[c] = 1))

\* C9 witness: ForwardToListener has returned the cancellation error while a
\* handler with an opened channel has not closed its streams yet.
C9_Witness ==
    /\ mode = "ForwardToListener" /\ Returned
    /\ startErr = Nil
    /\ result = CtxErr
    /\ \E c \in Conns :
         /\ hpc[c] = "wait"
         /\ chanOpened[c] = "ok"
         /\ connClosed[c] = 0 /\ chanClosed[c] = 0

\* C10: when channel.Close() returns io.EOF and no error was recorded
\* before, the error the handler reports is not that EOF (it is what
\* safeClose of the connection records); an error of channel.Close() is
\* recorded only when no error was recorded before and it is not io.EOF.
C10_SpuriousEOF ==
    /\ (fnPc # "closeChan" /\ IsEOF(fnChanClose) /\ fnErr0 = Nil) =>
          /\ fnErr.origin # "chan"
          /\ fnPc = "closeConn" => fnErr = Nil
          /\ fnPc = "done" => fnErr = fnConnClose
    /\ fnErr.origin = "chan" =>
          /\ fnErr0 = Nil
          /\ fnErr = fnChanClose
          /\ ~IsEOF(fnChanClose)

\* C10 witness: nothing recorded, channel.Close() returned io.EOF,
\* conn.Close() returned nil, and the handler reports nil.
C10_Witness ==
    /\ fnPc = "done"
    /\ fnErr0 = Nil
    /\ IsEOF(fnChanClose)
    /\ fnConnClose = Nil
    /\ fnErr = Nil

\* C12: Forward returns the error of its handler or the cancellation error,
\* never nil, and it returns once the context is cancelled or the channel
\* open has failed, whatever the copy goroutines do.
C12_ForwardResult ==
    /\ []((mode = "Forward" /\ Returned) =>
            /\ result # Nil
            /\ \/ viaErrc /\ hpc[1] = "done" /\ result = herr[1]
               \/ ~viaErrc /\ ctxDone /\ result = CtxErr)
    /\ []((mode = "Forward" /\ (ctxDone \/ chanOpened[1] = "failed")) =>
            <>Returned)

\* C12 witness: Forward has returned the cancellation error while both copy
\* goroutines are still in their Read.
C12_Witness ==
    /\ mode = "Forward" /\ Returned
    /\ result = CtxErr
    /\ copyPc[1] = StartedCopies

\* C13: after a failed openStreamingChannel the handler's error is the
\* wrapped cause, non-nil; the local connection is closed once the handler
\* has returned; no copy goroutine was started and the channel's Close is
\* never called.
C13_OpenFailurePath ==
    \A c \in Conns :
        chanOpened[c] = "failed" =>
            /\ herr[c] # Nil
            /\ herr[c].kind = "error opening streaming channel for new connection"
            /\ herr[c].cause = OpenChannelErr(c).kind
            /\ Finished(c) => connClosed[c] = 1
            /\ copyPc[c] = NoCopies
            /\ chanClosed[c] = 0

\* C13 witness: a handler has returned after a failed open.
C13_Witness ==
    \E c \in Conns :
        /\ chanOpened[c] = "failed"
        /\ hpc[c] = "done"
        /\ connClosed[c] = 1
        /\ herr[c] \in OfferedSet

\* C15: after the first Accept error the accept loop calls Accept no more
\* and starts no handler; it sends that error, and ForwardToListener returns
\* it when it is the first error sent and the context is not cancelled.
C15_Step ==
    acceptPc \in {"send", "done"} =>
        /\ acceptPc' \in {"send", "done"}
        /\ nAccepted' = nAccepted
        /\ \A c \in Conns : hpc[c] = "none" => hpc'[c] = "none"

C15_AcceptLoopStops ==
    /\ [][C15_Step]_vars
    /\ [](acceptPc = "done" => AcceptErr \in OfferedSet)
    /\ [](acceptPc = "send" => <>(acceptPc = "done"))
    /\ []((/\ mode = "ForwardToListener" /\ Returned
           /\ offered # <<>> /\ offered[1] = AcceptErr
           /\ ~ctxDone) => result = AcceptErr)
    /\ []((mainPc = "await" /\ acceptPc = "done") => <>Returned)

\* C15 witness: Accept failed before every connection was accepted, and
\* ForwardToListener returned the accept error.
C15_Witness ==
    /\ mode = "ForwardToListener" /\ Returned
    /\ acceptPc = "done"
    /\ nAccepted < MaxConns
    /\ result = AcceptErr
    /\ ~ctxDone

\* C16: once the context is cancelled, an accept loop that is in Accept
\* comes to a stop, without the caller closing the listener.
C16_CancelStopsAcceptLoop ==
    [](ctxDone /\ acceptPc = "accept" => <>(acceptPc # "accept"))

\* C17: startSharing is called once per call, before any Accept and any
\* openStreamingChannel; openStreamingChannel is called once per connection
\* and with the channelID startSharing returned.
C17_OneAnnouncementOneChannel ==
    /\ nShare <= 1
    /\ mainPc # "call" => nShare = 1
    /\ nShare = 0 =>
          /\ acceptPc = "none"
          /\ nAccepted = 0
          /\ \A c \in Conns : hpc[c] = "none" /\ nOpen[c] = 0
    /\ \A c \in Conns :
          /\ nOpen[c] <= 1
          /\ nOpen[c] = 0 <=> hpc[c] \in {"none", "open"}
          /\ nOpen[c] = 0 <=> chanOpened[c] = "none"
          /\ nOpen[c] = 1 => openID[c] = startID

\* C17 witness: two connections, one open call each, both with the
\* channelID of the one successful startSharing call.
C17_Witness ==
    /\ nShare = 1
    /\ startID = SharedID
    /\ \E c, d \in Conns :
         /\ c # d
         /\ nOpen[c] = 1 /\ nOpen[d] = 1
         /\ openID[c] = SharedID /\ openID[d] = SharedID
         /\ chanOpened[c] = "ok" /\ chanOpened[d] = "ok"

\* C18: a step of one connection's handler leaves every other connection's
\* handler, streams and copy goroutines as they are, and the streams of a
\* connection with an opened channel stay open while the context is not
\* cancelled, also after ForwardToListener returned another's failure.
C18_Inv ==
    \A d \in Conns :
        (chanOpened[d] = "ok" /\ ~ctxDone) =>
            /\ hpc[d] = "wait"
            /\ connClosed[d] = 0
            /\ chanClosed[d] = 0

C18_Step ==
    \A c \in Conns : hpc'[c] # hpc[c] =>
        \A d \in Conns \ {c} :
            /\ hpc'[d] = hpc[d]
            /\ herr'[d] = herr[d]
            /\ chanOpened'[d] = chanOpened[d]
            /\ connClosed'[d] = connClosed[d]
            /\ chanClosed'[d] = chanClosed[d]
            /\ copyPc'[d] = copyPc[d]

C18_Independent ==
    /\ []C18_Inv
    /\ [][C18_Step]_vars

\* C18 witness: ForwardToListener has returned the channel-open error of one
\* connection; another connection's channel is open, its streams are not
\* closed and its copies run, the context not being cancelled.
C18_Witness ==
    /\ mode = "ForwardToListener" /\ Returned
    /\ ~ctxDone
    /\ \E c, d \in Conns :
         /\ c # d
         /\ chanOpened[c] = "failed" /\ hpc[c] = "done" /\ result = herr[c]
         /\ connClosed[c] = 1
         /\ chanOpened[d] = "ok" /\ hpc[d] = "wait"
         /\ connClosed[d] = 0 /\ chanClosed[d] = 0
         /\ copyPc[d] = StartedCopies

\* C14: with the channel opened, the handler leaves its wait only when the
\* context is cancelled and then returns the cancellation error; while the
\* context is not cancelled neither stream is closed, also when both copy
\* directions have ended.
C14_WaitsForCancel ==
    \A c \in Conns :
        chanOpened[c] = "ok" =>
            /\ ~ctxDone =>
                  /\ hpc[c] = "wait"
                  /\ connClosed[c] = 0
                  /\ chanClosed[c] = 0
            /\ hpc[c] # "wait" => ctxDone /\ herr[c] = CtxErr

\* C14 witness: both copies have ended, the context is not cancelled, and
\* the handler still waits with both streams open.
C14_Witness ==
    \E c \in Conns :
        /\ ~ctxDone
        /\ chanOpened[c] = "ok"
        /\ \A d \in Dirs : copyPc[c][d] = "done"
        /\ hpc[c] = "wait"
        /\ connClosed[c] = 0 /\ chanClosed[c] = 0

\* C19: after the context is cancelled there comes a point from which no
\* copy goroutine of any connection is running any more and no connection
\* is left with its channel closed and its local stream open; the handler
\* of an opened channel never closes the local stream first.
C19_NoLeakedCopies ==
    /\ [](\A c \in Conns :
            (connClosed[c] = 1 /\ chanOpened[c] = "ok") => chanClosed[c] = 1)
    /\ <>[](ctxDone =>
              \A c \in Conns :
                  /\ \A d \in Dirs : copyPc[c][d] \in {"none", "done"}
                  /\ chanClosed[c] = 1 => connClosed[c] = 1)

\* C19 witness: after the cancellation the channel is closed, the connection
\* not yet, one copy is in Read on the connection and the other in Write to
\* it.
C19_Witness ==
    \E c \in Conns :
        /\ ctxDone
        /\ chanClosed[c] = 1 /\ connClosed[c] = 0
        /\ copyPc[c]["up"] = "read"
        /\ copyPc[c]["down"] = "write"

\* C20: handleConnection returns the wrapped channel-open error or the
\* context's cancellation error, never nil and never what a Close returned;
\* the deferred calls leave the error of the return statement as it was, and
\* the Close calls have run: the channel's, when a channel was opened, and
\* after it the local connection's.
C20_HandlerResult ==
    /\ fnPc \in {"closeChan", "closeConn", "done"} =>
          /\ fnErr = fnErr0
          /\ fnErr # Nil
          /\ fnErr.origin \notin {"chan", "conn"}
          /\ \/ fnErr = CtxErr /\ fnOpened = "ok" /\ ctxDone
             \/ /\ fnOpened = "failed"
                /\ \E c \in Conns :
                     fnErr = Errorf("error opening streaming channel for new connection",
                                    OpenChannelErr(c))
    /\ fnPc = "done" =>
          fnCloses = IF fnOpened = "ok" THEN <<"chan", "conn">> ELSE <<"conn">>

\* C20 witness: the call has returned the cancellation error after both
\* Close calls failed with an error other than io.EOF.
C20_Witness ==
    /\ fnPc = "done"
    /\ fnOpened = "ok"
    /\ fnErr = CtxErr
    /\ ~IsEOF(fnChanClose) /\ fnChanClose # Nil
    /\ ~IsEOF(fnConnClose) /\ fnConnClose # Nil
    /\ fnCloses = <<"chan", "conn">>

\* p is a prefix of q
IsPrefix(p, q) ==
    /\ Len(p) <= Len(q)
    /\ p = SubSeq(q, 1, Len(p))

\* C11: for every connection, at every moment, what has been written to the
\* remote channel is a prefix of what has been read from the local
\* connection, and what has been written to the local connection is a
\* prefix of what has been read from the remote channel.
C11_ByteTransparent ==
    \A c \in Conns :
        /\ IsPrefix(written[c]["chan"], readFrom[c]["conn"])
        /\ IsPrefix(written[c]["conn"], readFrom[c]["chan"])

\* C11 witness: one connection has passed a byte read from its local stream
\* to its channel while another has passed a different byte read from its
\* channel to its local stream.
C11_Witness ==
    \E c, e \in Conns :
        /\ c # e
        /\ Len(written[c]["chan"]) = 1
        /\ Len(written[e]["conn"]) = 1
        /\ written[c]["chan"][1] # written[e]["conn"][1]
        /\ written[c]["conn"] = <<>>
        /\ written[e]["chan"] = <<>>

====
